---- MODULE Spec2Model ----
(***************************************************************************)
(* A model of the seat-view scraper: src/src/scraper.py (AVFMSScraper) and *)
(* the parts of src/app.py that drive it.                                  *)
(*                                                                         *)
(* Python strings are TLA+ strings; a character is a string of length 1.   *)
(* Python's None / a missing attribute is the record [present |-> FALSE].  *)
(***************************************************************************)
EXTENDS Integers, Sequences, FiniteSets, TLC

VARIABLES
    soup,       \* get_venue_sections: what self._get(sections_url) returned
    sections,   \* get_venue_sections: the value returned to the caller
    seatUrl,    \* _parse_seat_info: the url argument and the parts it is made of
    seatInfo,   \* _parse_seat_info: the value returned to the caller
    callers,    \* the threads that hold the scraper instance
    delay,      \* self.delay, in ticks of the logical clock
    clock,      \* the logical clock
    pc,         \* per caller: "idle", "sleep", "request" or "done"
    call,       \* per caller: the operation it is in ("none": idle)
    wake,       \* per caller: the clock value at which time.sleep returns
    slept,      \* per caller in "request": the ticks it slept right before
    outcome,    \* per caller in "done": how its request ended
    got,        \* per caller in "done": what _get gave the extractor
    ret,        \* per caller in "done": what the operation gave its caller
    lastStart,  \* when the latest request of the instance started (-1: none)
    lastGap,    \* for the latest request sent after a sleep: the ticks since
                \* the start of the request before it (-1: there was none)
    fetches,    \* the requests sent after a sleep so far
    lastFailed, \* whether the latest of them to end ended in a failure
    doc,        \* search_venues, get_section_photos: what self._get returned
    venueArg,   \* get_section_photos: the venue_name argument
    maxArg,     \* get_section_photos: the max_photos argument
    foundVenues, \* search_venues: the value returned to the caller
    urlArg,      \* get_photo_details: the photo_url it is called with
    foundDetails, \* get_photo_details: the value returned to the caller
    foundPhotos, \* get_section_photos: the value returned to the caller
    runs,       \* the extractor calls made on the instance so far, in order
    left,       \* per extractor: the result list its latest call built
    session_photos,     \* app: st.session_state.photos
    downloaded_images,  \* app: st.session_state.downloaded_images
    batchPc,    \* app, Prepare All: "idle", "loop" or "done"
    idx,        \* app, Prepare All: the loop's idx
    downloaded, \* app, Prepare All: the loop's downloaded list
    attempts,   \* app, Prepare All: the fetch_image_bytes calls of the run
    session_venues,   \* app: st.session_state.venues
    session_sections, \* app: st.session_state.sections
    current_venue,    \* app: st.session_state.current_venue
    loadedVenue,      \* app: the venue of the latest get_venue_sections call
    appError          \* app: the exception that ended a script run, if any

secVars == <<soup, sections>>
seatVars == <<seatUrl, seatInfo>>
netVars == <<callers, delay, clock, pc, call, wake, slept, outcome, got, ret,
             lastStart, lastGap, fetches, lastFailed>>
docVars == <<doc, venueArg, maxArg, urlArg, foundVenues, foundPhotos,
            foundDetails>>
runVars == <<runs, left>>
navVars == <<session_venues, session_sections, current_venue, loadedVenue,
             appError>>
appVars == <<session_photos, downloaded_images, batchPc, idx, downloaded,
             attempts, navVars>>
vars == <<soup, sections, seatUrl, seatInfo, callers, delay, clock, pc, call,
          wake, slept, outcome, got, ret, lastStart, lastGap, fetches,
          lastFailed, doc, venueArg, maxArg, urlArg, foundVenues, foundPhotos,
          foundDetails,
          runs, left, session_photos, downloaded_images, batchPc, idx,
          downloaded, attempts, session_venues, session_sections,
          current_venue, loadedVenue, appError>>

---------------------------------------------------------------------------
(* Strings *)

Ch(s, i) == SubSeq(s, i, i)

MinOf(S) == CHOOSE m \in S : \A n \in S : m <= n

Digits == {"0", "1", "2", "3", "4", "5", "6", "7", "8", "9"}

IsDigit(c) == c \in Digits

DigitVal(c) ==
    CASE c = "0" -> 0 [] c = "1" -> 1 [] c = "2" -> 2 [] c = "3" -> 3
      [] c = "4" -> 4 [] c = "5" -> 5 [] c = "6" -> 6 [] c = "7" -> 7
      [] c = "8" -> 8 [] c = "9" -> 9

\* int(s) for a non-empty string of decimal digits
RECURSIVE ToInt(_)
ToInt(s) ==
    IF s = "" THEN 0
    ELSE 10 * ToInt(SubSeq(s, 1, Len(s) - 1)) + DigitVal(Ch(s, Len(s)))

\* sub in s
Contains(s, sub) ==
    \E i \in 1..(Len(s) - Len(sub) + 1) : SubSeq(s, i, i + Len(sub) - 1) = sub

\* s.startswith(p)
StartsWith(s, p) == Len(s) >= Len(p) /\ SubSeq(s, 1, Len(p)) = p

\* s.endswith(p)
EndsWith(s, p) == Len(s) >= Len(p) /\ SubSeq(s, Len(s) - Len(p) + 1, Len(s)) = p

UpperChars == "ABCDEFGHIJKLMNOPQRSTUVWXYZ"
LowerChars == "abcdefghijklmnopqrstuvwxyz"

UpperSet == {Ch(UpperChars, i) : i \in 1..Len(UpperChars)}

LowerSet == {Ch(LowerChars, i) : i \in 1..Len(LowerChars)}

\* For each upper-case letter, its lower-case letter.
LowerOf ==
    [c \in UpperSet |->
        Ch(LowerChars, CHOOSE i \in 1..Len(UpperChars) : Ch(UpperChars, i) = c)]

LowerCh(c) == IF c \in UpperSet THEN LowerOf[c] ELSE c

\* s.lower()
RECURSIVE Lower(_)
Lower(s) == IF s = "" THEN "" ELSE LowerCh(Head(s)) \o Lower(Tail(s))

\* The characters the model's strings use, in code point order.
CodeOrder ==
    " ()+-./0123456789:ABCDEFGHIJKLMNOPQRSTUVWXYZ_abcdefghijklmnopqrstuvwxyz"

Ord(c) == CHOOSE i \in 1..Len(CodeOrder) : Ch(CodeOrder, i) = c

\* a < b for Python strings: lexicographic by code point
StrLess(a, b) ==
    \E i \in 1..(Len(b)) :
        /\ i <= Len(a) + 1
        /\ SubSeq(a, 1, i - 1) = SubSeq(b, 1, i - 1)
        /\ \/ i = Len(a) + 1
           \/ Ord(Ch(a, i)) < Ord(Ch(b, i))

\* The last index of the run of digits of s that starts at i (i - 1: none).
DigitRunEnd(s, i) ==
    LET stop == {k \in i..Len(s) : ~IsDigit(Ch(s, k))}
    IN  IF stop = {} THEN Len(s) ELSE MinOf(stop) - 1

Absent == [present |-> FALSE]
Some(v) == [present |-> TRUE, val |-> v]

---------------------------------------------------------------------------
(* AVFMSScraper *)

BASE_URL == "https://aviewfrommyseat.com"

\* href if href.startswith("http") else f"{self.BASE_URL}{href}"
FullUrl(href) == IF StartsWith(href, "http") THEN href ELSE BASE_URL \o href

---------------------------------------------------------------------------
(* _parse_seat_info *)

\* The last index of the run of characters other than "/" of s that starts
\* at i (i - 1: none).
NonSlashRunEnd(s, i) ==
    LET stop == {k \in i..Len(s) : Ch(s, k) = "/"}
    IN  IF stop = {} THEN Len(s) ELSE MinOf(stop) - 1

\* The positions of url where label, in any letter case, is followed by a
\* separator and one character or more other than "/".
LabelStarts(label, url) ==
    {i \in 1..Len(url) :
        /\ i + Len(label) + 1 <= Len(url)
        /\ Ch(url, i + Len(label)) \in {"/", "-"}
        /\ Ch(url, i + Len(label) + 1) # "/"
        /\ Lower(SubSeq(url, i, i + Len(label) - 1)) = label}

\* group(1) of the leftmost of the matches that start at the positions starts
FirstGroup(label, url, starts) ==
    IF starts = {} THEN Absent
    ELSE Some(SubSeq(url, MinOf(starts) + Len(label) + 1,
                     NonSlashRunEnd(url, MinOf(starts) + Len(label) + 1)))

\* re.search(label + r'[/-]([^/]+)', url, re.IGNORECASE): the match's group(1)
LabelMatch(label, url) == FirstGroup(label, url, LabelStarts(label, url))

\* s.replace(a, b) for single characters a and b
RECURSIVE ReplaceCh(_, _, _)
ReplaceCh(s, a, b) ==
    IF s = "" THEN ""
    ELSE (IF Head(s) = a THEN b ELSE Head(s)) \o ReplaceCh(Tail(s), a, b)

\* group(1).replace("-", " ").replace("+", " ")
SeatValue(v) == ReplaceCh(ReplaceCh(v, "-", " "), "+", " ")

\* The (section, row, seat) tuple _parse_seat_info returns.
parse_seat_info(url) ==
    LET section_match == LabelMatch("section", url)
        row_match == LabelMatch("row", url)
        seat_match == LabelMatch("seat", url)
    IN  [section |-> IF section_match.present
                     THEN SeatValue(section_match.val) ELSE "",
         row |-> IF row_match.present
                 THEN Some(SeatValue(row_match.val)) ELSE Absent,
         seat |-> IF seat_match.present
                  THEN Some(SeatValue(seat_match.val)) ELSE Absent]

---------------------------------------------------------------------------
(* get_venue_sections *)

\* An element of a sections page: whether it carries the class
\* section_contained_in, its section_name attribute, the hrefs of the anchors
\* inside it in document order, and its text (get_text()).
Elem(c, n, h, t) == [cls |-> c, section_name |-> n, hrefs |-> h, text |-> t]

\* soup.select(".section_contained_in[section_name]")
IsSectionContainer(e) == e.cls /\ e.section_name.present

\* container.select_one("a[href*='/venue/']")
VenueLink(e) ==
    LET hit == {i \in 1..Len(e.hrefs) : Contains(e.hrefs[i], "/venue/")}
    IN  IF hit = {} THEN Absent ELSE Some(e.hrefs[MinOf(hit)])

\* Mutant of PhotoMatch: the last match instead of the first.
PhotoMatchLast(text) ==
    LET starts == {i \in 1..Len(text) :
                     /\ Ch(text, i) = "("
                     /\ DigitRunEnd(text, i + 1) >= i + 1
                     /\ DigitRunEnd(text, i + 1) < Len(text)
                     /\ Ch(text, DigitRunEnd(text, i + 1) + 1) = ")"}
        last == CHOOSE m \in starts : \A n \in starts : n <= m
    IN  IF starts = {} THEN Absent
        ELSE Some(SubSeq(text, last + 1, DigitRunEnd(text, last + 1)))

\* re.search(r'\((\d+)\)', container_text): the match's group(1)
PhotoMatch(text) ==
    LET starts == {i \in 1..Len(text) :
                     /\ Ch(text, i) = "("
                     /\ DigitRunEnd(text, i + 1) >= i + 1
                     /\ DigitRunEnd(text, i + 1) < Len(text)
                     /\ Ch(text, DigitRunEnd(text, i + 1) + 1) = ")"}
    IN  IF starts = {} THEN Absent
        ELSE Some(SubSeq(text, MinOf(starts) + 1,
                         DigitRunEnd(text, MinOf(starts) + 1)))

\* int(photo_match.group(1)) if photo_match else 0
PhotoCount(text) ==
    IF PhotoMatch(text).present THEN ToInt(PhotoMatch(text).val) ELSE 0

\* Mutant of SkipsCount: only a negative count is skipped.
SkipsCountNegative(n) == n < 0

\* photo_count == 0: continue
SkipsCount(n) == n = 0

\* One pass of the loop body: the Section appended for a container, if any.
SectionOf(e) ==
    IF e.section_name.val = "" THEN Absent
    ELSE IF ~VenueLink(e).present THEN Absent
    ELSE IF SkipsCount(PhotoCount(e.text)) THEN Absent
    ELSE Some([name |-> e.section_name.val,
               photo_count |-> PhotoCount(e.text),
               url |-> FullUrl(VenueLink(e).val)])

RECURSIVE CollectSections(_)
CollectSections(elems) ==
    IF elems = <<>> THEN <<>>
    ELSE LET e == Head(elems)
             rest == CollectSections(Tail(elems))
         IN  IF IsSectionContainer(e) /\ SectionOf(e).present
             THEN <<SectionOf(e).val>> \o rest
             ELSE rest

\* re.search(r'(\d+)', s.name): the match's group(1)
NameMatch(name) ==
    LET starts == {i \in 1..Len(name) : IsDigit(Ch(name, i))}
    IN  IF starts = {} THEN Absent
        ELSE Some(SubSeq(name, MinOf(starts), DigitRunEnd(name, MinOf(starts))))

\* Mutant of sort_key: the name alone, no numeric part.
sort_keyNameOnly(s) == <<1, 0, s.name>>

sort_key(s) ==
    IF NameMatch(s.name).present
    THEN <<0, ToInt(NameMatch(s.name).val), s.name>>
    ELSE <<1, 0, s.name>>

\* k1 < k2 for the key tuples (int, int, str)
KeyLess(k1, k2) ==
    \/ k1[1] < k2[1]
    \/ k1[1] = k2[1] /\ k1[2] < k2[2]
    \/ k1[1] = k2[1] /\ k1[2] = k2[2] /\ StrLess(k1[3], k2[3])

\* list.sort(key=sort_key) is stable: x goes after every element whose key
\* is not greater than its own.
InsertByKey(sorted, x) ==
    LET later == {i \in 1..Len(sorted) : KeyLess(sort_key(x), sort_key(sorted[i]))}
        at == IF later = {} THEN Len(sorted) + 1 ELSE MinOf(later)
    IN  SubSeq(sorted, 1, at - 1) \o <<x>> \o SubSeq(sorted, at, Len(sorted))

RECURSIVE SortSections(_)
SortSections(seq) ==
    IF seq = <<>> THEN <<>>
    ELSE InsertByKey(SortSections(SubSeq(seq, 1, Len(seq) - 1)), seq[Len(seq)])

\* Mutant of VenueSections: a placeholder Section when the fetch failed.
VenueSectionsPlaceholder(s) ==
    IF ~s.present THEN <<[name |-> "", photo_count |-> 0, url |-> BASE_URL]>>
    ELSE SortSections(CollectSections(s.val))

\* The value get_venue_sections returns for what _get returned.
VenueSections(s) ==
    IF ~s.present THEN <<>>
    ELSE SortSections(CollectSections(s.val))

---------------------------------------------------------------------------
(* search_venues *)

\* str.strip() of leading and trailing spaces
RECURSIVE Strip(_)
Strip(s) ==
    IF s = "" THEN ""
    ELSE IF Head(s) = " " THEN Strip(Tail(s))
    ELSE IF Ch(s, Len(s)) = " " THEN Strip(SubSeq(s, 1, Len(s) - 1))
    ELSE s

\* An anchor of a page: its href, its text, and the src of the first img
\* inside it (Absent: no img; Some(""): an img without src).
Anchor(h, t, i) == [href |-> h, text |-> t, img |-> i]

\* soup.select("a[href*='/venue/']")
IsVenueAnchor(a) == Contains(a.href, "/venue/")

\* Mutant of VenueLoop: "/section" not in href, without lower().
RECURSIVE VenueLoopCaseSensitive(_, _, _)
VenueLoopCaseSensitive(links, venues, seen) ==
    IF links = <<>> THEN venues
    ELSE LET href == Head(links).href
             name == Strip(Head(links).text)
         IN  IF name = "" \/ href \in seen
             THEN VenueLoopCaseSensitive(Tail(links), venues, seen)
             ELSE IF Contains(href, "/venue/") /\ ~Contains(href, "/section")
             THEN VenueLoopCaseSensitive(Tail(links),
                            Append(venues, [name |-> name, url |-> FullUrl(href)]),
                            seen \cup {href})
             ELSE VenueLoopCaseSensitive(Tail(links), venues, seen)

\* The loop over venue_links, with the venues and the seen set so far.
RECURSIVE VenueLoop(_, _, _)
VenueLoop(links, venues, seen) ==
    IF links = <<>> THEN venues
    ELSE LET href == Head(links).href
             name == Strip(Head(links).text)
         IN  IF name = "" \/ href \in seen
             THEN VenueLoop(Tail(links), venues, seen)
             ELSE IF Contains(href, "/venue/") /\ ~Contains(Lower(href), "/section")
             THEN VenueLoop(Tail(links),
                            Append(venues, [name |-> name, url |-> FullUrl(href)]),
                            seen \cup {href})
             ELSE VenueLoop(Tail(links), venues, seen)

\* The value search_venues returns for what _get returned.
SearchVenues(s) ==
    IF ~s.present THEN <<>>
    ELSE VenueLoop(SelectSeq(s.val, IsVenueAnchor), <<>>, {})

---------------------------------------------------------------------------
(* get_section_photos *)

\* s.replace(old, "") for a non-empty old
RECURSIVE Remove(_, _)
Remove(s, old) ==
    IF Len(s) < Len(old) THEN s
    ELSE IF SubSeq(s, 1, Len(old)) = old
    THEN Remove(SubSeq(s, Len(old) + 1, Len(s)), old)
    ELSE Head(s) \o Remove(Tail(s), old)

\* soup.select("a[href*='/photo/']")
IsPhotoAnchor(a) == Contains(a.href, "/photo/")

\* Mutant of Truncate: photo_links[:max_photos + 1].
TruncateOneMore(links, max_photos) ==
    SubSeq(links, 1, IF max_photos + 1 < Len(links) THEN max_photos + 1
                     ELSE Len(links))

\* photo_links[:max_photos] for max_photos >= 0
Truncate(links, max_photos) ==
    SubSeq(links, 1, IF max_photos < Len(links) THEN max_photos ELSE Len(links))

\* The image URL built from a thumbnail's src.
ImageUrl(src) ==
    LET full == IF Contains(Lower(src), "thumb")
                THEN Remove(Remove(src, "_thumb"), "_small")
                ELSE src
    IN  IF StartsWith(full, "http") THEN full ELSE BASE_URL \o full

\* SeatPhoto(image_url=..., section=section, row=row, seat=seat, event=None,
\* venue=venue_name, photo_page_url=photo_page_url), info being the tuple
\* that _parse_seat_info returned
NewSeatPhoto(image_url, info, venue_name, photo_page_url) ==
    [image_url |-> image_url,
     section |-> info.section,
     row |-> info.row,
     seat |-> info.seat,
     event |-> Absent,
     venue |-> venue_name,
     photo_page_url |-> photo_page_url]

\* Mutant of PhotoOf: _parse_seat_info(img_src) instead of
\* _parse_seat_info(photo_page_url).
PhotoOfSeatFromImage(link, venue_name) ==
    IF link.href = "" THEN Absent
    ELSE IF ~link.img.present THEN Absent
    ELSE IF link.img.val = "" THEN Absent
    ELSE Some(NewSeatPhoto(ImageUrl(link.img.val),
                           parse_seat_info(ImageUrl(link.img.val)),
                           venue_name,
                           FullUrl(link.href)))

\* One pass of the loop body: the SeatPhoto appended for a link, if any.
PhotoOf(link, venue_name) ==
    IF link.href = "" THEN Absent
    ELSE IF ~link.img.present THEN Absent
    ELSE IF link.img.val = "" THEN Absent
    ELSE Some(NewSeatPhoto(ImageUrl(link.img.val),
                           parse_seat_info(FullUrl(link.href)),
                           venue_name,
                           FullUrl(link.href)))

\* photos.append(...) when the pass gave a SeatPhoto
AppendedFirst(photo, rest) ==
    IF photo.present THEN <<photo.val>> \o rest ELSE rest

RECURSIVE CollectPhotos(_, _)
CollectPhotos(links, venue_name) ==
    IF links = <<>> THEN <<>>
    ELSE AppendedFirst(PhotoOf(Head(links), venue_name),
                       CollectPhotos(Tail(links), venue_name))

\* Mutant of SectionPhotos: the cap is applied to the records, not the links.
SectionPhotosCapLast(s, venue_name, max_photos) ==
    IF ~s.present THEN <<>>
    ELSE Truncate(CollectPhotos(SelectSeq(s.val, IsPhotoAnchor), venue_name),
                  max_photos)

\* The value get_section_photos returns for what _get returned.
SectionPhotos(s, venue_name, max_photos) ==
    IF ~s.present THEN <<>>
    ELSE CollectPhotos(Truncate(SelectSeq(s.val, IsPhotoAnchor), max_photos),
                       venue_name)

---------------------------------------------------------------------------
(* get_photo_details *)

\* An img of a photo page: whether it has class photo, its src attribute,
\* and whether it lies inside .photo-container or #photo.
Img(c, src, box) == [photo_class |-> c, src |-> src, in_photo_box |-> box]

\* A photo page: its imgs in document order, the text of the first element
\* matching ".event-name, .tour-name, h2" and the text of the first
\* a[href*='/venue/'].
PhotoPage(imgs, event, venue) == [imgs |-> imgs, event |-> event, venue |-> venue]

\* An img that "img.photo, img[src*='/photos/']" selects.
IsPrimaryImg(i) == i.photo_class \/ (i.src.present /\ Contains(i.src.val, "/photos/"))

\* An img that ".photo-container img, #photo img" selects.
IsBoxedImg(i) == i.in_photo_box

\* soup.select_one("img.photo, img[src*='/photos/']")
FirstPrimaryImg(imgs) ==
    LET hit == {k \in 1..Len(imgs) : IsPrimaryImg(imgs[k])}
    IN  IF hit = {} THEN Absent ELSE Some(imgs[MinOf(hit)])

\* soup.select_one(".photo-container img, #photo img")
FirstBoxedImg(imgs) ==
    LET hit == {k \in 1..Len(imgs) : IsBoxedImg(imgs[k])}
    IN  IF hit = {} THEN Absent ELSE Some(imgs[MinOf(hit)])

\* Mutant of MainImg: the two selectors are tried in the other order.
MainImgBoxedFirst(page) ==
    IF FirstBoxedImg(page.imgs).present
    THEN FirstBoxedImg(page.imgs)
    ELSE FirstPrimaryImg(page.imgs)

\* main_img after the two select_one calls
MainImg(page) ==
    IF FirstPrimaryImg(page.imgs).present
    THEN FirstPrimaryImg(page.imgs)
    ELSE FirstBoxedImg(page.imgs)

\* The value get_photo_details returns for what _get returned.
PhotoDetails(s, photo_url) ==
    IF ~s.present THEN Absent
    ELSE IF ~MainImg(s.val).present THEN Absent
    ELSE LET src == IF MainImg(s.val).val.src.present
                    THEN MainImg(s.val).val.src.val ELSE ""
             info == parse_seat_info(photo_url)
         IN  Some([image_url |-> IF StartsWith(src, "http") THEN src
                                 ELSE BASE_URL \o src,
                   section |-> info.section,
                   row |-> info.row,
                   seat |-> info.seat,
                   event |-> IF s.val.event.present
                             THEN Some(Strip(s.val.event.val)) ELSE Absent,
                   venue |-> IF s.val.venue.present
                             THEN Strip(s.val.venue.val) ELSE "",
                   photo_page_url |-> photo_url])

---------------------------------------------------------------------------
(* Sections pages the extractor is run on *)

MaxContainers == 3

SectionNamePool == {"Floor 5", "Floor 12", "Balcony", "Floor A", "5", "12A"}

SectionElemPool ==
    {Elem(TRUE, Some(n), <<"/venue/V/section-1/">>, "(34)") : n \in SectionNamePool}
    \cup {Elem(TRUE, Some("Floor 5"), h, t) :
            h \in {<<>>, <<"#top", "https://aviewfrommyseat.com/venue/V/section-2/">>},
            t \in {"Floor 5 (7)", "Floor 5 (0)", "Floor 5"}}
    \cup {Elem(TRUE, Some(""), <<"/venue/V/section-1/">>, "(34)"),
          Elem(TRUE, Absent, <<"/venue/V/section-1/">>, "(34)"),
          Elem(FALSE, Some("Balcony"), <<"/venue/V/section-1/">>, "(34)")}

NotCalled == [called |-> FALSE]
Returned(v) == [called |-> TRUE, val |-> v]

\* The variables of the operations a specification does not exercise.
SectionsUnused == soup = Absent /\ sections = NotCalled
SeatUnused == seatUrl = [url |-> ""] /\ seatInfo = NotCalled
NetUnused ==
    /\ callers = {} /\ delay = 0 /\ clock = 0
    /\ pc = <<>> /\ call = <<>> /\ wake = <<>> /\ slept = <<>>
    /\ outcome = <<>> /\ got = <<>> /\ ret = <<>>
    /\ lastStart = -1 /\ lastGap = -1 /\ fetches = 0 /\ lastFailed = FALSE
DocUnused ==
    /\ doc = Absent /\ venueArg = "" /\ maxArg = 0
    /\ foundVenues = NotCalled /\ foundPhotos = NotCalled
    /\ urlArg = "" /\ foundDetails = NotCalled
RunsUnused == runs = <<>> /\ left = <<>>
AppUnused ==
    /\ session_photos = <<>> /\ downloaded_images = <<>>
    /\ batchPc = "idle" /\ idx = 0 /\ downloaded = <<>> /\ attempts = <<>>
    /\ session_venues = <<>> /\ session_sections = <<>>
    /\ current_venue = Absent /\ loadedVenue = Absent /\ appError = "none"

InitSections ==
    /\ soup = Some(<<>>)
    /\ sections = NotCalled
    /\ SeatUnused
    /\ NetUnused
    /\ DocUnused
    /\ RunsUnused
    /\ AppUnused

\* The page grows by one element (the remote site's content).
AddElement(e) ==
    /\ ~sections.called
    /\ soup.present
    /\ Len(soup.val) < MaxContainers
    /\ soup' = Some(Append(soup.val, e))
    /\ UNCHANGED <<sections, seatVars, netVars, docVars, runVars, appVars>>

\* The fetch of the sections page fails: _get returns None.
FetchFails ==
    /\ ~sections.called
    /\ soup = Some(<<>>)
    /\ soup' = Absent
    /\ UNCHANGED <<sections, seatVars, netVars, docVars, runVars, appVars>>

GetVenueSections ==
    /\ ~sections.called
    /\ sections' = Returned(VenueSections(soup))
    /\ UNCHANGED <<soup, seatVars, netVars, docVars, runVars, appVars>>

NextSections ==
    \/ \E e \in SectionElemPool : AddElement(e)
    \/ FetchFails
    \/ GetVenueSections

SpecSections == InitSections /\ [][NextSections]_vars

---------------------------------------------------------------------------
(* One container whose text is any string over TextAlphabet *)

MaxTextLen == 7

TextAlphabet == {"(", ")", "0", "3", "4"}

InitCount ==
    /\ soup = Some(<<Elem(TRUE, Some("Floor 5"), <<"/venue/V/section-1/">>, "")>>)
    /\ sections = NotCalled
    /\ SeatUnused
    /\ NetUnused
    /\ DocUnused
    /\ RunsUnused
    /\ AppUnused

\* The container's text grows by one character (the remote site's content).
TypeText(c) ==
    /\ ~sections.called
    /\ Len(soup.val[1].text) < MaxTextLen
    /\ soup' = Some(<<[soup.val[1] EXCEPT !.text = @ \o c]>>)
    /\ UNCHANGED <<sections, seatVars, netVars, docVars, runVars, appVars>>

NextCount ==
    \/ \E c \in TextAlphabet : TypeText(c)
    \/ GetVenueSections

SpecCount == InitCount /\ [][NextCount]_vars

---------------------------------------------------------------------------
(* Photo-page URLs the seat-info parser is run on *)

VenuePool == {"v", "Lenovo+Center", "Arrow-Head"}
SeparatorPool == {"-", "/"}
SectionValuePool == {"100", "GA", "Lower-Bowl", "Club+1"}
RowValuePool == {"A", "B-2"}
SeatValuePool == {"5", "1+2"}

\* https://x/venue/<venue>/photo/section-<s>/[row-<r>/][seat-<t>/]
PhotoUrl(p) ==
    "https://x/venue/" \o p.venue \o "/photo/section" \o p.sep \o p.section \o "/"
    \o (IF p.row.present THEN "row" \o p.sep \o p.row.val \o "/" ELSE "")
    \o (IF p.seat.present THEN "seat" \o p.sep \o p.seat.val \o "/" ELSE "")

PhotoUrlParts ==
    [venue : VenuePool, sep : SeparatorPool, section : SectionValuePool,
     row : {Absent} \cup {Some(r) : r \in RowValuePool},
     seat : {Absent} \cup {Some(t) : t \in SeatValuePool}]

InitSeat ==
    /\ seatUrl \in {[parts |-> p, url |-> PhotoUrl(p)] : p \in PhotoUrlParts}
    /\ seatInfo = NotCalled
    /\ SectionsUnused
    /\ NetUnused
    /\ DocUnused
    /\ RunsUnused
    /\ AppUnused

ParseSeatInfo ==
    /\ ~seatInfo.called
    /\ seatInfo' = Returned(parse_seat_info(seatUrl.url))
    /\ UNCHANGED <<seatUrl, secVars, netVars, docVars, runVars, appVars>>

NextSeat == ParseSeatInfo

SpecSeat == InitSeat /\ [][NextSeat]_vars

---------------------------------------------------------------------------
(* The scraper instance and its callers: _get, download_image and the app's *)
(* fetch_image_bytes, on a logical clock                                    *)

MaxDelay == 2
MaxClock == 5
MaxSessions == 2
MaxSharedClock == 2

\* AVFMSScraper(delay=0.5) of get_scraper: one tick is half a time unit.
AppDelay == 1

\* The clock value the model stops the clock at.
Horizon == IF Cardinality(callers) > 1 THEN MaxSharedClock ELSE MaxClock

\* The operations that fetch their page with self._get.
GetCalls ==
    {"search_venues", "get_venue_sections", "get_section_photos",
     "get_photo_details"}

\* The operations of the scraper the app's buttons run.
AppCalls == {"search_venues", "get_venue_sections", "get_section_photos"}

\* How a request can end.
Outcomes == {"ok", "http_error", "timeout", "connection_error"}

\* What session.get / raise_for_status raise for an outcome.
Raised(o) ==
    CASE o = "ok" -> "none"
      [] o = "http_error" -> "HTTPError"
      [] o = "timeout" -> "Timeout"
      [] o = "connection_error" -> "ConnectionError"

\* The exceptions of requests that derive from requests.RequestException.
RequestException == {"HTTPError", "Timeout", "ConnectionError"}

\* Mutant of CaughtByGet: except requests.HTTPError.
CaughtByGetHttpOnly(e) == e = "HTTPError"

\* except requests.RequestException
CaughtByGet(e) == e \in RequestException

\* What the try block of download_image raises for the request's outcome and
\* whether open / f.write succeed ("none": nothing).
DownloadRaised(o, written) ==
    IF Raised(o) # "none" THEN Raised(o)
    ELSE IF ~written THEN "OSError"
    ELSE "none"

\* Mutant of CaughtByDownload: except requests.RequestException.
CaughtByDownloadRequestOnly(e) == e \in RequestException

\* except Exception
CaughtByDownload(e) == e \in RequestException \cup {"OSError"}

\* What download_image gives its caller.
Download(o, written) ==
    IF DownloadRaised(o, written) = "none" THEN [raised |-> FALSE, val |-> TRUE]
    ELSE IF CaughtByDownload(DownloadRaised(o, written))
    THEN [raised |-> FALSE, val |-> FALSE]
    ELSE [raised |-> TRUE]

\* Mutant of CaughtByFetchImageBytes: except requests.HTTPError.
CaughtByFetchImageBytesHttpOnly(e) == e = "HTTPError"

\* except Exception, in the app's fetch_image_bytes
CaughtByFetchImageBytes(e) == e \in RequestException \cup {"OSError"}

\* What fetch_image_bytes gives its caller for an outcome and the body of a
\* 2xx response.
FetchImageBytesResult(o, content) ==
    IF Raised(o) = "none" THEN [raised |-> FALSE, val |-> Some(content)]
    ELSE IF CaughtByFetchImageBytes(Raised(o))
    THEN [raised |-> FALSE, val |-> Absent]
    ELSE [raised |-> TRUE]

\* What _get gives its caller for an outcome and the page of a 2xx body.
Get(o, page) ==
    IF Raised(o) = "none" THEN [raised |-> FALSE, soup |-> Some(page)]
    ELSE IF CaughtByGet(Raised(o)) THEN [raised |-> FALSE, soup |-> Absent]
    ELSE [raised |-> TRUE, soup |-> Absent]

\* The arguments the callers of the model pass.
DefaultVenueName == ""
DefaultMaxPhotos == 20
DetailUrl == "https://x/venue/v/photo/section-100/row-A/seat-5/"

\* The pages the remote site may answer an operation's request with.
Pages(c) ==
    CASE c = "search_venues" ->
            {<<>>, <<Anchor("/venue/V/", "V", Absent)>>}
      [] c = "get_venue_sections" ->
            {<<>>,
             <<Elem(TRUE, Some("Floor 5"), <<"/venue/V/section-1/">>, "(0)")>>,
             <<Elem(TRUE, Some("Floor 5"), <<"/venue/V/section-1/">>, "(34)")>>}
      [] c = "get_section_photos" ->
            {<<>>,
             <<Anchor("/venue/V/photo/section-1/", "", Some("/i/1_thumb.jpg"))>>}
      [] c = "get_photo_details" ->
            {PhotoPage(<<>>, Absent, Absent),
             PhotoPage(<<Img(TRUE, Some("/photos/1.jpg"), FALSE)>>, Some("E"), Absent)}

\* What an operation makes of what _get returned.
Extract(c, s) ==
    CASE c = "search_venues" -> SearchVenues(s)
      [] c = "get_venue_sections" -> VenueSections(s)
      [] c = "get_section_photos" -> SectionPhotos(s, DefaultVenueName, DefaultMaxPhotos)
      [] c = "get_photo_details" -> PhotoDetails(s, DetailUrl)

\* Mutant of WakeTime: time.sleep(0).
WakeTimeNoDelay(now, d) == now

\* time.sleep(self.delay) started at now returns at now + delay or later.
WakeTime(now, d) == now + d

InitNet ==
    /\ clock = 0
    /\ pc = [s \in callers |-> "idle"]
    /\ call = [s \in callers |-> "none"]
    /\ wake = [s \in callers |-> 0]
    /\ slept = [s \in callers |-> 0]
    /\ outcome = [s \in callers |-> "none"]
    /\ got = [s \in callers |-> Absent]
    /\ ret = [s \in callers |-> Absent]
    /\ lastStart = -1 /\ lastGap = -1 /\ fetches = 0 /\ lastFailed = FALSE
    /\ SectionsUnused
    /\ SeatUnused
    /\ DocUnused
    /\ RunsUnused
    /\ AppUnused

\* One sequential caller owns an instance AVFMSScraper(delay).
Init == callers = {1} /\ delay \in 1..MaxDelay /\ InitNet

\* The app's sessions, one thread each, hold the one instance that
\* get_scraper caches.
InitShared == callers = 1..MaxSessions /\ delay = AppDelay /\ InitNet

\* Time passes.
Tick ==
    /\ clock < Horizon
    /\ clock' = clock + 1
    /\ UNCHANGED <<callers, delay, pc, call, wake, slept, outcome, got, ret,
                   lastStart, lastGap, fetches, lastFailed, secVars, seatVars,
                   docVars, runVars, appVars>>

\* A caller enters an operation of the scraper: _get or download_image begin
\* with time.sleep(self.delay).
Call(s, c) ==
    /\ pc[s] = "idle"
    /\ pc' = [pc EXCEPT ![s] = "sleep"]
    /\ call' = [call EXCEPT ![s] = c]
    /\ wake' = [wake EXCEPT ![s] = WakeTime(clock, delay)]
    /\ UNCHANGED <<callers, delay, clock, slept, outcome, got, ret,
                   lastStart, lastGap, fetches, lastFailed, secVars, seatVars,
                   docVars, runVars, appVars>>

\* time.sleep returns and self.session.get sends the request.
SendRequest(s) ==
    /\ pc[s] = "sleep"
    /\ clock >= wake[s]
    /\ pc' = [pc EXCEPT ![s] = "request"]
    /\ slept' = [slept EXCEPT ![s] = clock - (wake[s] - delay)]
    /\ lastGap' = IF lastStart < 0 THEN -1 ELSE clock - lastStart
    /\ lastStart' = clock
    /\ fetches' = fetches + 1
    /\ UNCHANGED <<callers, delay, clock, call, wake, outcome, got, ret,
                   lastFailed, secVars, seatVars,
                   docVars, runVars, appVars>>

\* The app's fetch_image_bytes: scraper.session.get at once.
FetchImageBytes(s) ==
    /\ pc[s] = "idle"
    /\ pc' = [pc EXCEPT ![s] = "request"]
    /\ call' = [call EXCEPT ![s] = "fetch_image_bytes"]
    /\ slept' = [slept EXCEPT ![s] = 0]
    /\ lastStart' = clock
    /\ UNCHANGED <<callers, delay, clock, wake, outcome, got, ret, lastGap,
                   fetches, lastFailed, secVars, seatVars,
                   docVars, runVars, appVars>>

\* The request of a _get ends; _get returns and the operation extracts.
GetResponds(s, o) ==
    /\ pc[s] = "request"
    /\ call[s] \in GetCalls
    /\ pc' = [pc EXCEPT ![s] = "done"]
    /\ slept' = [slept EXCEPT ![s] = 0]
    /\ outcome' = [outcome EXCEPT ![s] = o]
    /\ \E page \in Pages(call[s]) :
          /\ got' = [got EXCEPT ![s] = Get(o, page)]
          /\ ret' = [ret EXCEPT ![s] =
                       IF Get(o, page).raised THEN [raised |-> TRUE]
                       ELSE [raised |-> FALSE,
                             val |-> Extract(call[s], Get(o, page).soup)]]
    /\ lastFailed' = (o # "ok")
    /\ UNCHANGED <<callers, delay, clock, call, wake, lastStart, lastGap,
                   fetches, secVars, seatVars,
                   docVars, runVars, appVars>>

\* The request of download_image ends; on 2xx the file is written, which
\* may fail; except Exception catches everything.
DownloadResponds(s, o, written) ==
    /\ pc[s] = "request"
    /\ call[s] = "download_image"
    /\ pc' = [pc EXCEPT ![s] = "done"]
    /\ slept' = [slept EXCEPT ![s] = 0]
    /\ outcome' = [outcome EXCEPT ![s] =
                         IF DownloadRaised(o, written) = "OSError"
                         THEN "write_error" ELSE o]
    /\ ret' = [ret EXCEPT ![s] = Download(o, written)]
    /\ lastFailed' = (o # "ok")
    /\ UNCHANGED <<callers, delay, clock, call, wake, got, lastStart, lastGap,
                   fetches, secVars, seatVars,
                   docVars, runVars, appVars>>

\* The request of fetch_image_bytes ends: response.content, or None after
\* any exception.
ImageBytesResponds(s, o, content) ==
    /\ pc[s] = "request"
    /\ call[s] = "fetch_image_bytes"
    /\ pc' = [pc EXCEPT ![s] = "done"]
    /\ slept' = [slept EXCEPT ![s] = 0]
    /\ outcome' = [outcome EXCEPT ![s] = o]
    /\ ret' = [ret EXCEPT ![s] = FetchImageBytesResult(o, content)]
    /\ UNCHANGED <<callers, delay, clock, call, wake, got, lastStart, lastGap,
                   fetches, lastFailed, secVars, seatVars,
                   docVars, runVars, appVars>>

\* The caller takes the returned value and is free for its next call.
Return(s) ==
    /\ pc[s] = "done"
    /\ pc' = [pc EXCEPT ![s] = "idle"]
    /\ call' = [call EXCEPT ![s] = "none"]
    /\ outcome' = [outcome EXCEPT ![s] = "none"]
    /\ got' = [got EXCEPT ![s] = Absent]
    /\ ret' = [ret EXCEPT ![s] = Absent]
    /\ UNCHANGED <<callers, delay, clock, wake, slept, lastStart, lastGap,
                   fetches, lastFailed, secVars, seatVars,
                   docVars, runVars, appVars>>

Next ==
    \/ Tick
    \/ \E s \in callers, c \in GetCalls \cup {"download_image"} : Call(s, c)
    \/ \E s \in callers : SendRequest(s)
    \/ \E s \in callers : FetchImageBytes(s)
    \/ \E s \in callers, o \in Outcomes : GetResponds(s, o)
    \/ \E s \in callers, o \in Outcomes, written \in BOOLEAN :
          DownloadResponds(s, o, written)
    \/ \E s \in callers, o \in Outcomes, content \in {"", "JPEG"} :
          ImageBytesResponds(s, o, content)
    \/ \E s \in callers : Return(s)

Spec == Init /\ [][Next]_vars

NextShared ==
    \/ Tick
    \/ \E s \in callers, c \in AppCalls : Call(s, c)
    \/ \E s \in callers : SendRequest(s)
    \/ \E s \in callers : FetchImageBytes(s)
    \/ \E s \in callers, o \in Outcomes : GetResponds(s, o)
    \/ \E s \in callers, o \in Outcomes, content \in {"", "JPEG"} :
          ImageBytesResponds(s, o, content)
    \/ \E s \in callers : Return(s)

SpecShared == InitShared /\ [][NextShared]_vars

---------------------------------------------------------------------------
(* Section pages get_section_photos is run on *)

MaxLinks == 3
MaxCap == 2

PhotoAnchorPool ==
    {Anchor("/venue/V/photo/section-1/row-A/", "", Some("/i/1_thumb.jpg")),
     Anchor("/venue/V/photo/section-1/row-B/", "", Some("/i/2_small.jpg")),
     Anchor("https://aviewfrommyseat.com/venue/V/photo/section-2/", "",
            Some("https://cdn.x/i/3_small_thumb.jpg")),
     Anchor("/venue/V/photo/section-3/", "", Some("/i/section-9/row-Z/4.jpg")),
     Anchor("/venue/V/photo/section-4/", "", Absent),
     Anchor("/venue/V/photo/section-5/", "", Some("")),
     Anchor("/venue/V/", "V", Some("/i/7.jpg")),
     Anchor("/venue/V/photo/section-6/", "", Some("//cdn.x/i/8.jpg")),
     Anchor("/venue/V/photo/section-7/", "", Some("i/9_thumb.jpg")),
     Anchor("../photo/section-8/", "", Some("/i/10.jpg"))}

VenueNamePool == {"", "Lenovo Center"}

InitPhotos ==
    /\ doc = Some(<<>>)
    /\ venueArg \in VenueNamePool
    /\ maxArg \in 0..MaxCap
    /\ foundVenues = NotCalled
    /\ foundPhotos = NotCalled
    /\ urlArg = ""
    /\ foundDetails = NotCalled
    /\ SectionsUnused
    /\ SeatUnused
    /\ NetUnused
    /\ RunsUnused
    /\ AppUnused

\* The page grows by one anchor (the remote site's content).
AddAnchor(a) ==
    /\ ~foundPhotos.called
    /\ ~foundVenues.called
    /\ Len(doc.val) < MaxLinks
    /\ doc' = Some(Append(doc.val, a))
    /\ UNCHANGED <<venueArg, maxArg, urlArg, foundVenues, foundPhotos,
                   foundDetails, secVars, seatVars, netVars,
                   runVars, appVars>>

GetSectionPhotos ==
    /\ ~foundPhotos.called
    /\ foundPhotos' = Returned(SectionPhotos(doc, venueArg, maxArg))
    /\ UNCHANGED <<doc, venueArg, maxArg, urlArg, foundVenues, foundDetails,
                   secVars, seatVars, netVars,
                   runVars, appVars>>

NextPhotos ==
    \/ \E a \in PhotoAnchorPool : AddAnchor(a)
    \/ GetSectionPhotos

SpecPhotos == InitPhotos /\ [][NextPhotos]_vars

---------------------------------------------------------------------------
(* A section page with more photo links than the cap *)

CandidateLinks == 25
CapPhotos == 10

\* The decimal numeral of n >= 0
RECURSIVE Dec(_)
Dec(n) ==
    IF n < 10 THEN Ch("0123456789", n + 1)
    ELSE Dec(n \div 10) \o Ch("0123456789", (n % 10) + 1)

\* The href of the k-th photo link of the page.
LinkHref(k) == "/venue/V/photo/section-1/p" \o Dec(k) \o "/"

\* The page: CandidateLinks photo links, each wrapping a thumbnail; the
\* links at the positions of noImg wrap no img, the img of link 7 may have
\* an empty src, and the link at position dup, if any, repeats link 1 (at
\* position 6 as an absolute href).
CapPage(noImg, emptySrc, dup) ==
    [k \in 1..CandidateLinks |->
        Anchor(IF k = dup
               THEN (IF k = 6 THEN BASE_URL \o LinkHref(1) ELSE LinkHref(1))
               ELSE LinkHref(k),
               "",
               IF k \in noImg THEN Absent
               ELSE IF k = 7 /\ emptySrc THEN Some("")
               ELSE Some("/i/" \o Dec(k) \o "_thumb.jpg"))]

InitCap ==
    /\ \E noImg \in SUBSET {2, CapPhotos, CapPhotos + 1, CandidateLinks},
          emptySrc \in BOOLEAN, dup \in {0, 5, 6, CapPhotos + 2} :
          doc = Some(CapPage(noImg, emptySrc, dup))
    /\ venueArg = ""
    /\ maxArg = CapPhotos
    /\ foundVenues = NotCalled
    /\ foundPhotos = NotCalled
    /\ urlArg = ""
    /\ foundDetails = NotCalled
    /\ SectionsUnused
    /\ SeatUnused
    /\ NetUnused
    /\ RunsUnused
    /\ AppUnused

NextCap == GetSectionPhotos

SpecCap == InitCap /\ [][NextCap]_vars

---------------------------------------------------------------------------
(* Search-result pages search_venues is run on *)

SearchAnchorPool ==
    {Anchor("/venue/A/", "Arena", Absent),
     Anchor("/venue/A/", "Arena photos", Absent),
     Anchor("/venue/A/", "", Absent),
     Anchor("https://aviewfrommyseat.com/venue/A/", "The Arena", Absent),
     Anchor("/venue/B/", " Bowl ", Absent),
     Anchor("/venue/A/section-1/", "Sec 1", Absent),
     Anchor("/venue/A/Section-2/", "Sec 2", Absent),
     Anchor("/venue/Intersection-Hall/", "Hall", Absent),
     Anchor("/about/", "About", Absent)}

InitSearch ==
    /\ doc = Some(<<>>)
    /\ venueArg = ""
    /\ maxArg = 0
    /\ foundVenues = NotCalled
    /\ foundPhotos = NotCalled
    /\ urlArg = ""
    /\ foundDetails = NotCalled
    /\ SectionsUnused
    /\ SeatUnused
    /\ NetUnused
    /\ RunsUnused
    /\ AppUnused

SearchVenuesCall ==
    /\ ~foundVenues.called
    /\ foundVenues' = Returned(SearchVenues(doc))
    /\ UNCHANGED <<doc, venueArg, maxArg, urlArg, foundPhotos, foundDetails,
                   secVars, seatVars, netVars,
                   runVars, appVars>>

NextSearch ==
    \/ \E a \in SearchAnchorPool : AddAnchor(a)
    \/ SearchVenuesCall

SpecSearch == InitSearch /\ [][NextSearch]_vars

---------------------------------------------------------------------------
(* Photo pages get_photo_details is run on *)

MaxImgs == 3

ImgPool ==
    {Img(TRUE, Some("/i/a.jpg"), FALSE),
     Img(FALSE, Some("https://cdn.x/photos/b.jpg"), FALSE),
     Img(FALSE, Some("/i/c.jpg"), TRUE),
     Img(FALSE, Some("/i/logo.png"), FALSE),
     Img(TRUE, Absent, FALSE),
     Img(FALSE, Some("/photos/d.jpg"), TRUE)}

EventTextPool == {Absent, Some(" World Tour ")}
VenueTextPool == {Absent, Some("Lenovo Center")}
PhotoUrlPool == {DetailUrl, "https://aviewfrommyseat.com/photo/12345/"}

InitDetails ==
    /\ \E e \in EventTextPool, v \in VenueTextPool :
          doc = Some(PhotoPage(<<>>, e, v))
    /\ urlArg \in PhotoUrlPool
    /\ foundDetails = NotCalled
    /\ venueArg = ""
    /\ maxArg = 0
    /\ foundVenues = NotCalled
    /\ foundPhotos = NotCalled
    /\ SectionsUnused
    /\ SeatUnused
    /\ NetUnused
    /\ RunsUnused
    /\ AppUnused

\* The page has one more img (the remote site's content).
AddImg(i) ==
    /\ ~foundDetails.called
    /\ doc.present
    /\ Len(doc.val.imgs) < MaxImgs
    /\ doc' = Some(PhotoPage(Append(doc.val.imgs, i), doc.val.event,
                             doc.val.venue))
    /\ UNCHANGED <<venueArg, maxArg, urlArg, foundVenues, foundPhotos,
                   foundDetails, secVars, seatVars, netVars, runVars, appVars>>

\* The request for the page fails: self._get returns None.
DetailFetchFails ==
    /\ ~foundDetails.called
    /\ doc.present
    /\ doc' = Absent
    /\ UNCHANGED <<venueArg, maxArg, urlArg, foundVenues, foundPhotos,
                   foundDetails, secVars, seatVars, netVars, runVars, appVars>>

GetPhotoDetails ==
    /\ ~foundDetails.called
    /\ foundDetails' = Returned(PhotoDetails(doc, urlArg))
    /\ UNCHANGED <<doc, venueArg, maxArg, urlArg, foundVenues, foundPhotos,
                   secVars, seatVars, netVars, runVars, appVars>>

NextDetails ==
    \/ \E i \in ImgPool : AddImg(i)
    \/ DetailFetchFails
    \/ GetPhotoDetails

SpecDetails == InitDetails /\ [][NextDetails]_vars

---------------------------------------------------------------------------
(* Extractor calls made one after another on one scraper instance *)

MaxRuns == 3

\* The extractors that build their result in a list.
ListCalls == {"search_venues", "get_venue_sections", "get_section_photos"}

ExtractorCalls == GetCalls \cup {"_parse_seat_info"}

\* What an extractor can be run on: what _get returned, or the url argument
\* of _parse_seat_info.
Inputs(c) ==
    IF c = "_parse_seat_info"
    THEN {DetailUrl, "https://x/venue/v/photo/section-GA/"}
    ELSE {Absent} \cup {Some(p) : p \in Pages(c)}

\* Mutant of EmptyList: the list of the previous call is used again.
KeptList(prev) == prev

\* venues = [] / sections = [] / photos = []: a new list at each call,
\* whatever list the previous call built.
EmptyList(prev) == <<>>

\* What a call returns for its input, prev being the list the extractor's
\* previous call built.
RunOutput(c, input, prev) ==
    CASE c = "search_venues" ->
            IF ~input.present THEN <<>>
            ELSE VenueLoop(SelectSeq(input.val, IsVenueAnchor), EmptyList(prev), {})
      [] c = "get_venue_sections" ->
            IF ~input.present THEN <<>>
            ELSE SortSections(EmptyList(prev) \o CollectSections(input.val))
      [] c = "get_section_photos" ->
            IF ~input.present THEN <<>>
            ELSE EmptyList(prev)
                 \o CollectPhotos(Truncate(SelectSeq(input.val, IsPhotoAnchor),
                                           DefaultMaxPhotos),
                                  DefaultVenueName)
      [] c = "get_photo_details" -> PhotoDetails(input, DetailUrl)
      [] c = "_parse_seat_info" -> parse_seat_info(input)

InitRuns ==
    /\ runs = <<>>
    /\ left = [c \in ListCalls |-> <<>>]
    /\ SectionsUnused
    /\ SeatUnused
    /\ NetUnused
    /\ DocUnused
    /\ AppUnused

\* An extractor is called and returns.
Run(c, input) ==
    /\ Len(runs) < MaxRuns
    /\ LET out == RunOutput(c, input, IF c \in ListCalls THEN left[c] ELSE <<>>)
       IN  /\ runs' = Append(runs, [op |-> c, input |-> input, out |-> out])
           /\ left' = IF c \in ListCalls THEN [left EXCEPT ![c] = out] ELSE left
    /\ UNCHANGED <<secVars, seatVars, netVars, docVars, appVars>>

NextRuns == \E c \in ExtractorCalls : \E input \in Inputs(c) : Run(c, input)

SpecRuns == InitRuns /\ [][NextRuns]_vars

---------------------------------------------------------------------------
(* The app's Prepare All for Download *)

MaxBatch == 3

\* The fields of a SeatPhoto the loop reads.
BatchPhotoPool ==
    {[image_url |-> "https://aviewfrommyseat.com/i/1.jpg", section |-> "1"],
     [image_url |-> "https://aviewfrommyseat.com/i/2.jpg", section |-> "Club 1"]}

\* The bodies a 2xx response may carry.
ContentPool == {"", "JPEG"}

\* st.session_state.current_venue["name"]
BatchVenueName == "Lenovo Center"

\* The venue dicts search_venues returns: two venues, and a second entry
\* under the first one's name.
VenueA == [name |-> BatchVenueName, url |-> BASE_URL \o "/venue/A/"]
VenueA2 == [name |-> BatchVenueName, url |-> BASE_URL \o "/venue/A/photos/"]
VenueB == [name |-> "Red Rocks", url |-> BASE_URL \o "/venue/B/"]

\* The Section lists get_venue_sections returns for a venue's url: none, or
\* two sections with photos, sorted.
SectionsResultPool(venue_url) ==
    {<<>>,
     <<[name |-> "101", photo_count |-> 5, url |-> venue_url \o "section-101/"],
       [name |-> "102", photo_count |-> 1, url |-> venue_url \o "section-102/"]>>}

\* venue_name of the display: the current venue's name, "venue" without one
VenueNameShown ==
    IF current_venue.present THEN current_venue.val.name ELSE "venue"

\* c.isalnum()
IsAlnum(c) == IsDigit(c) \/ c \in UpperSet \/ c \in LowerSet

\* "".join(c if c.isalnum() else "_" for c in s)
RECURSIVE SafeName(_)
SafeName(s) ==
    IF s = "" THEN ""
    ELSE (IF IsAlnum(Head(s)) THEN Head(s) ELSE "_") \o SafeName(Tail(s))

\* f"{safe_venue}_{safe_section}_{idx+1}.jpg"
Filename(photo, i) ==
    SafeName(VenueNameShown) \o "_" \o SafeName(photo.section) \o "_"
    \o Dec(i + 1) \o ".jpg"

\* if image_bytes:
Truthy(image_bytes) == image_bytes.present /\ image_bytes.val # ""

\* The photos are on display, so the list is not empty.
InitBatch ==
    /\ session_photos \in UNION {[1..n -> BatchPhotoPool] : n \in 1..MaxBatch}
    /\ downloaded_images = <<>>
    /\ batchPc = "idle"
    /\ idx = 0
    /\ downloaded = <<>>
    /\ attempts = <<>>
    /\ session_venues = <<VenueA>>
    /\ session_sections \in SectionsResultPool(VenueA.url) \ {<<>>}
    /\ current_venue = Some(VenueA)
    /\ loadedVenue = Some(VenueA)
    /\ appError = "none"
    /\ SectionsUnused
    /\ SeatUnused
    /\ NetUnused
    /\ DocUnused
    /\ RunsUnused

\* The button is pressed: downloaded = [] and the loop starts.
PrepareAll ==
    /\ session_photos # <<>>
    /\ batchPc \in {"idle", "done"}
    /\ batchPc' = "loop"
    /\ idx' = 0
    /\ downloaded' = <<>>
    /\ attempts' = <<>>
    /\ UNCHANGED <<session_photos, downloaded_images, navVars, secVars,
                   seatVars, netVars, docVars, runVars>>

\* One pass of the loop body: fetch_image_bytes, then the append if it
\* gave bytes. An exception out of fetch_image_bytes would end the run.
BatchFetch(o, content) ==
    /\ batchPc = "loop"
    /\ idx < Len(session_photos)
    /\ LET r == FetchImageBytesResult(o, content)
           photo == session_photos[idx + 1]
       IN  IF r.raised
           THEN /\ batchPc' = "aborted"
                /\ attempts' = Append(attempts, [idx |-> idx, outcome |-> o,
                                                 image_bytes |-> Absent])
                /\ UNCHANGED <<idx, downloaded>>
           ELSE /\ attempts' = Append(attempts, [idx |-> idx, outcome |-> o,
                                                 image_bytes |-> r.val])
                /\ downloaded' =
                      IF Truthy(r.val)
                      THEN Append(downloaded, <<Filename(photo, idx), r.val.val>>)
                      ELSE downloaded
                /\ idx' = idx + 1
                /\ UNCHANGED batchPc
    /\ UNCHANGED <<session_photos, downloaded_images, navVars, secVars,
                   seatVars, netVars, docVars, runVars>>

\* The loop is over: st.session_state.downloaded_images = downloaded.
BatchEnd ==
    /\ batchPc = "loop"
    /\ idx = Len(session_photos)
    /\ downloaded_images' = downloaded
    /\ batchPc' = "done"
    /\ UNCHANGED <<session_photos, idx, downloaded, attempts, navVars,
                   secVars, seatVars, netVars, docVars, runVars>>

\* The steps of the loop, which runs on once started: each request ends, by
\* a response or by its timeout.
BatchStep ==
    \/ \E o \in Outcomes, content \in ContentPool : BatchFetch(o, content)
    \/ BatchEnd

NextBatch ==
    \/ PrepareAll
    \/ \E o \in Outcomes, content \in ContentPool : BatchFetch(o, content)
    \/ BatchEnd

SpecBatch == InitBatch /\ [][NextBatch]_vars /\ WF_vars(BatchStep)

---------------------------------------------------------------------------
(* The app's session state under its buttons *)

MaxShown == 2

\* The venue lists search_venues returns to the app.
SearchResultPool == {<<>>, <<VenueA, VenueB>>, <<VenueA, VenueA2>>}

\* The values of the "Max photos to fetch" slider that are tried.
SliderPool == 1..MaxShown

\* The SeatPhoto lists get_section_photos returns for a max_photos.
PhotosResultPool(max_photos) ==
    UNION {[1..n -> BatchPhotoPool] : n \in 0..MinOf({max_photos, MaxShown})}

\* next((v for v in venues if v["name"] == selected_venue_name), None), for
\* an option of the selectbox
SelectedVenue(shown, selected_venue_name) ==
    shown[MinOf({k \in 1..Len(shown) : shown[k].name = selected_venue_name})]

\* s.photo_count > 0
HasPhotos(sec) == sec.photo_count > 0

\* [s for s in st.session_state.sections if s.photo_count > 0]
SectionsWithPhotos(secs) == SelectSeq(secs, HasPhotos)

\* Mutant of LoadedVenue: Load Sections leaves current_venue as it was.
LoadedVenueKept(selected_venue, prev) == prev

\* st.session_state.current_venue = selected_venue
LoadedVenue(selected_venue, prev) == Some(selected_venue)

\* Mutant of NoImages: the images prepared earlier stay.
StaleImages(prev) == prev

\* st.session_state.downloaded_images = []
NoImages(prev) == <<>>

\* The state right after the "not in st.session_state" initialisations.
InitApp ==
    /\ AppUnused
    /\ SectionsUnused
    /\ SeatUnused
    /\ NetUnused
    /\ DocUnused
    /\ RunsUnused

\* The Search button with a non-empty query; a button starts a new script
\* run, in which the locals of the run before are gone.
Search(result) ==
    /\ batchPc # "loop"
    /\ session_venues' = result
    /\ session_sections' = <<>>
    /\ session_photos' = <<>>
    /\ downloaded_images' = NoImages(downloaded_images)
    /\ batchPc' = "idle" /\ idx' = 0 /\ downloaded' = <<>> /\ attempts' = <<>>
    /\ UNCHANGED <<current_venue, loadedVenue, appError, secVars, seatVars,
                   netVars, docVars, runVars>>

\* The Load Sections button, shown for the venue selected by name.
LoadSections(selected_venue_name, result) ==
    /\ batchPc # "loop"
    /\ session_venues # <<>>
    /\ selected_venue_name # ""
    /\ \E k \in 1..Len(session_venues) :
          session_venues[k].name = selected_venue_name
    /\ result \in SectionsResultPool(
                     SelectedVenue(session_venues, selected_venue_name).url)
    /\ session_sections' = result
    /\ current_venue' =
          LoadedVenue(SelectedVenue(session_venues, selected_venue_name),
                      current_venue)
    /\ loadedVenue' = Some(SelectedVenue(session_venues, selected_venue_name))
    /\ session_photos' = <<>>
    /\ downloaded_images' = NoImages(downloaded_images)
    /\ batchPc' = "idle" /\ idx' = 0 /\ downloaded' = <<>> /\ attempts' = <<>>
    /\ UNCHANGED <<session_venues, appError, secVars, seatVars, netVars,
                   docVars, runVars>>

\* The Fetch Photos button, shown for the k-th section with photos.
\* st.session_state.current_venue["name"] raises TypeError on None, before
\* anything is assigned.
FetchPhotos(k, max_photos, result) ==
    /\ batchPc # "loop"
    /\ session_sections # <<>>
    /\ k \in 1..Len(SectionsWithPhotos(session_sections))
    /\ result \in PhotosResultPool(max_photos)
    /\ batchPc' = "idle" /\ idx' = 0 /\ downloaded' = <<>> /\ attempts' = <<>>
    /\ IF current_venue.present
       THEN /\ session_photos' = result
            /\ downloaded_images' = NoImages(downloaded_images)
            /\ UNCHANGED appError
       ELSE /\ appError' = "TypeError"
            /\ UNCHANGED <<session_photos, downloaded_images>>
    /\ UNCHANGED <<session_venues, session_sections, current_venue,
                   loadedVenue, secVars, seatVars, netVars, docVars, runVars>>

\* The Download button of the k-th photo on display: it fetches the bytes
\* and assigns nothing in the session state.
DownloadOne(k, o, content) ==
    /\ batchPc # "loop"
    /\ k \in 1..Len(session_photos)
    /\ appError' = IF FetchImageBytesResult(o, content).raised
                   THEN Raised(o) ELSE appError
    /\ batchPc' = "idle" /\ idx' = 0 /\ downloaded' = <<>> /\ attempts' = <<>>
    /\ UNCHANGED <<session_photos, downloaded_images, session_venues,
                   session_sections, current_venue, loadedVenue, secVars,
                   seatVars, netVars, docVars, runVars>>

NextApp ==
    \/ \E result \in SearchResultPool : Search(result)
    \/ \E n \in {VenueA.name, VenueB.name},
          result \in SectionsResultPool(VenueA.url)
                        \cup SectionsResultPool(VenueB.url) :
          LoadSections(n, result)
    \/ \E k \in 1..2, max_photos \in SliderPool,
          result \in PhotosResultPool(MaxShown) :
          FetchPhotos(k, max_photos, result)
    \/ \E k \in 1..MaxShown, o \in Outcomes, content \in ContentPool :
          DownloadOne(k, o, content)
    \/ PrepareAll
    \/ \E o \in Outcomes, content \in ContentPool : BatchFetch(o, content)
    \/ BatchEnd

SpecApp == InitApp /\ [][NextApp]_vars

---------------------------------------------------------------------------
(* Claims on the fetch client *)

\* C1: every request sent through the scraper instance, fetch_image_bytes's
\* included, comes right after a sleep of at least the configured delay.
C1_SleepBeforeEveryRequest ==
    \A s \in callers : pc[s] = "request" => slept[s] >= delay

\* C2: with one sequential caller, a request that _get or download_image
\* sends starts at least delay after the start of the request before it, and
\* n such requests have taken at least n * delay; failed ones included.
C2_RequestsSpaced ==
    /\ lastGap >= 0 => lastGap >= delay
    /\ clock >= fetches * delay

\* The third fetch in a row is sent as early as the sleeps allow, right after
\* a fetch that failed.
C2_Witness ==
    /\ pc[1] = "request"
    /\ call[1] \in GetCalls
    /\ fetches = 3
    /\ lastFailed
    /\ lastGap = delay
    /\ clock = 3 * delay

\* C3: at most one request of the instance is in flight, whatever way the
\* sessions that share it interleave.
C3_OneInFlight ==
    Cardinality({s \in callers : pc[s] = "request"}) <= 1

\* C4: whether the request ends 2xx, in an HTTP error status, a timeout or a
\* connection failure, _get returns and does not raise: the parsed page on
\* 2xx, None otherwise.
C4_GetNeverRaises ==
    \A s \in callers :
        (pc[s] = "done" /\ call[s] \in GetCalls) =>
            /\ ~got[s].raised
            /\ got[s].soup.present <=> outcome[s] = "ok"

\* A _get whose request timed out has returned None.
C4_Witness ==
    \E s \in callers :
        /\ pc[s] = "done"
        /\ call[s] \in GetCalls
        /\ outcome[s] = "timeout"
        /\ got[s] = [raised |-> FALSE, soup |-> Absent]

\* C5: the value an extractor returns after a successful fetch is never the
\* value it returns after a failed fetch, so the caller can tell the two
\* apart.
C5_FailureDistinguishable ==
    \A s \in callers :
        (pc[s] = "done" /\ call[s] \in GetCalls /\ outcome[s] = "ok"
            /\ ~ret[s].raised) =>
            ret[s].val # Extract(call[s], Absent)

\* C6: when the fetch fails, a listing operation returns the empty list and
\* get_photo_details returns None; none of them raises.
C6_FailureIsEmpty ==
    \A s \in callers :
        (pc[s] = "done" /\ call[s] \in GetCalls /\ outcome[s] # "ok") =>
            /\ ~ret[s].raised
            /\ ret[s].val =
                  IF call[s] = "get_photo_details" THEN Absent ELSE <<>>

\* get_venue_sections has returned after its request ended in an HTTP error
\* status.
C6_Witness ==
    \E s \in callers :
        /\ pc[s] = "done"
        /\ call[s] = "get_venue_sections"
        /\ outcome[s] = "http_error"
        /\ ~ret[s].raised

\* C19: download_image sends its request after a sleep of at least the
\* configured delay and never raises; it returns True when the response was
\* 2xx and the file was written, and False after a network error, an HTTP
\* error status or a failed write.
C19_DownloadNeverRaises ==
    \A s \in callers :
        /\ (pc[s] = "request" /\ call[s] = "download_image") => slept[s] >= delay
        /\ (pc[s] = "done" /\ call[s] = "download_image") =>
              /\ ~ret[s].raised
              /\ ret[s].val \in BOOLEAN
              /\ ret[s].val <=> outcome[s] = "ok"

\* download_image has returned False after a 2xx response whose bytes could
\* not be written.
C19_Witness ==
    \E s \in callers :
        /\ pc[s] = "done"
        /\ call[s] = "download_image"
        /\ outcome[s] = "write_error"
        /\ ret[s] = [raised |-> FALSE, val |-> FALSE]

---------------------------------------------------------------------------
(* Claims on get_venue_sections *)

\* The containers of the page that have a section name and an inner venue link.
UsableContainers ==
    IF soup.present
    THEN {i \in 1..Len(soup.val) :
            /\ IsSectionContainer(soup.val[i])
            /\ soup.val[i].section_name.val # ""
            /\ VenueLink(soup.val[i]).present}
    ELSE {}

\* C7: every Section that get_venue_sections returns has photo_count > 0.
C7_PhotoCountPositive ==
    sections.called =>
        \A i \in 1..Len(sections.val) : sections.val[i].photo_count > 0

\* A page with a usable zero-count container and a usable container without
\* any count was extracted, and something was returned.
C7_Witness ==
    /\ sections.called
    /\ Len(sections.val) >= 1
    /\ \E i \in UsableContainers : Contains(soup.val[i].text, "(0)")
    /\ \E i \in UsableContainers : ~Contains(soup.val[i].text, "(")

\* text[j..k] is a parenthesized integer: "(", one or more digits, ")".
IsParenInt(text, j, k) ==
    /\ 1 <= j /\ j + 1 < k /\ k <= Len(text)
    /\ Ch(text, j) = "(" /\ Ch(text, k) = ")"
    /\ \A m \in (j + 1)..(k - 1) : IsDigit(Ch(text, m))

HasParenInt(text) ==
    \E j \in 1..Len(text), k \in 1..Len(text) : IsParenInt(text, j, k)

\* The leftmost parenthesized integer of text is exactly lit, e.g. "(34)".
FirstParenIntIs(text, lit) ==
    \E j \in 1..Len(text) :
        /\ IsParenInt(text, j, j + Len(lit) - 1)
        /\ SubSeq(text, j, j + Len(lit) - 1) = lit
        /\ \A j2 \in 1..(j - 1), k2 \in 1..Len(text) : ~IsParenInt(text, j2, k2)

\* C8 as stated: a container whose text contains "(34)" yields photo_count 34
\* whatever else the text holds, and a container with no parenthesized
\* integer, or with "(0)", yields nothing.
C8_AnyOccurrence ==
    (sections.called /\ UsableContainers = {1} /\ Len(soup.val) = 1) =>
        LET text == soup.val[1].text
        IN  /\ Contains(text, "(34)") =>
                /\ Len(sections.val) = 1
                /\ sections.val[1].photo_count = 34
            /\ (~HasParenInt(text) \/ Contains(text, "(0)")) =>
                sections.val = <<>>

\* C8 amended: a container whose leftmost parenthesized integer is "(34)"
\* yields photo_count 34, and a container with no parenthesized integer, or
\* whose leftmost one is "(0)", yields nothing.
C8_FirstOccurrence ==
    (sections.called /\ UsableContainers = {1} /\ Len(soup.val) = 1) =>
        LET text == soup.val[1].text
        IN  /\ FirstParenIntIs(text, "(34)") =>
                /\ Len(sections.val) = 1
                /\ sections.val[1].photo_count = 34
            /\ (~HasParenInt(text) \/ FirstParenIntIs(text, "(0)")) =>
                sections.val = <<>>

\* A text with another parenthesized integer after its leftmost "(34)" was
\* extracted to a Section.
C8_Witness ==
    /\ sections.called
    /\ UsableContainers = {1}
    /\ FirstParenIntIs(soup.val[1].text, "(34)")
    /\ Contains(soup.val[1].text, "(0)")
    /\ Len(sections.val) = 1

\* The first run of digits of name, as a number (-1: the name has no digit).
FirstInteger(name) ==
    IF \E i \in 1..Len(name) : IsDigit(Ch(name, i))
    THEN LET i == MinOf({i \in 1..Len(name) : IsDigit(Ch(name, i))})
             j == MinOf({j \in i..Len(name) :
                           j = Len(name) \/ ~IsDigit(Ch(name, j + 1))})
         IN  ToInt(SubSeq(name, i, j))
    ELSE -1

\* C9: in the returned list, names with an integer come before names with
\* none, names with an integer ascend by it, and names with equal integers,
\* and names without integers, ascend lexically.
C9_SectionsSorted ==
    sections.called =>
        \A i \in 1..Len(sections.val), j \in 1..Len(sections.val) :
            i < j =>
                LET a == sections.val[i].name
                    b == sections.val[j].name
                IN  /\ FirstInteger(b) >= 0 => FirstInteger(a) >= 0
                    /\ FirstInteger(a) >= 0 => 
                          \/ FirstInteger(b) < 0
                          \/ FirstInteger(a) <= FirstInteger(b)
                    /\ FirstInteger(a) = FirstInteger(b) => ~StrLess(b, a)

\* Three sections came back in another order than the page's: a name with an
\* integer, a different name with the same integer, and a name without one.
C9_Witness ==
    /\ sections.called
    /\ Len(sections.val) = 3
    /\ sections.val # CollectSections(soup.val)
    /\ sections.val[1].name # sections.val[2].name
    /\ FirstInteger(sections.val[1].name) = FirstInteger(sections.val[2].name)
    /\ FirstInteger(sections.val[1].name) >= 0
    /\ FirstInteger(sections.val[3].name) < 0

---------------------------------------------------------------------------
(* Claims on _parse_seat_info *)

\* v with each "-" and each "+" replaced by a space
RECURSIVE WithSpaces(_)
WithSpaces(v) ==
    IF v = "" THEN ""
    ELSE WithSpaces(SubSeq(v, 1, Len(v) - 1))
         \o (IF Ch(v, Len(v)) \in {"-", "+"} THEN " " ELSE Ch(v, Len(v)))

\* C10: for a URL with path segments section-<s>, row-<r>, seat-<t> (or the
\* "/" forms), _parse_seat_info returns each segment's value with "-" and "+"
\* replaced by spaces, and None for a row or seat segment the URL lacks.
C10_SegmentsParsed ==
    seatInfo.called =>
        LET p == seatUrl.parts
        IN  seatInfo.val =
                [section |-> WithSpaces(p.section),
                 row |-> IF p.row.present THEN Some(WithSpaces(p.row.val)) ELSE Absent,
                 seat |-> IF p.seat.present THEN Some(WithSpaces(p.seat.val)) ELSE Absent]

\* C11: for a URL with no path segment labelled row, the returned row is
\* None, and for a URL with no path segment labelled seat, the returned seat
\* is None, whatever the venue name and the other segments hold.
C11_AbsentLabelsUnset ==
    seatInfo.called =>
        LET p == seatUrl.parts
        IN  /\ ~p.row.present => seatInfo.val.row = Absent
            /\ ~p.seat.present => seatInfo.val.seat = Absent

---------------------------------------------------------------------------
(* Claims on search_venues *)

\* The path an href points at on the base origin.
TargetPath(href) ==
    IF StartsWith(href, BASE_URL)
    THEN SubSeq(href, Len(BASE_URL) + 1, Len(href))
    ELSE href

\* The links of the page that point at a venue root page, in document order.
VenueRootLinks ==
    {i \in 1..Len(doc.val) :
        /\ Contains(doc.val[i].href, "/venue/")
        /\ ~Contains(Lower(doc.val[i].href), "/section")}

\* C13: the venue links that share a target path yield exactly one venue,
\* named by the display text of the first of them in document order, also
\* when that text is empty and when the path is written once relative and
\* once absolute; no two returned venues have the same url.
C13_OneVenuePerPath ==
    foundVenues.called =>
        /\ \A i \in 1..Len(foundVenues.val), j \in 1..Len(foundVenues.val) :
              i # j => foundVenues.val[i].url # foundVenues.val[j].url
        /\ \A k \in VenueRootLinks :
              LET same == {m \in VenueRootLinks :
                             TargetPath(doc.val[m].href) = TargetPath(doc.val[k].href)}
                  first == MinOf(same)
                  hits == {i \in 1..Len(foundVenues.val) :
                             foundVenues.val[i].url = BASE_URL \o TargetPath(doc.val[k].href)}
              IN  /\ Cardinality(hits) = 1
                  /\ \A i \in hits :
                        foundVenues.val[i].name = Strip(doc.val[first].text)

\* C14: the returned venues are, in order, venue links of the page in
\* document order; none has an empty name and none points at a path with a
\* section segment, in whatever letter case.
C14_DocumentOrder ==
    foundVenues.called =>
        /\ \E f \in [1..Len(foundVenues.val) -> 1..Len(doc.val)] :
              /\ \A i \in 1..Len(foundVenues.val), j \in 1..Len(foundVenues.val) :
                    i < j => f[i] < f[j]
              /\ \A i \in 1..Len(foundVenues.val) :
                    /\ Contains(doc.val[f[i]].href, "/venue/")
                    /\ foundVenues.val[i].name = Strip(doc.val[f[i]].text)
                    /\ TargetPath(foundVenues.val[i].url)
                          = TargetPath(doc.val[f[i]].href)
        /\ \A i \in 1..Len(foundVenues.val) :
              /\ foundVenues.val[i].name # ""
              /\ ~Contains(Lower(foundVenues.val[i].url), "/section")

\* Two venues came back from a page of three links, one of which points at
\* a Section page and was left out.
C14_Witness ==
    /\ foundVenues.called
    /\ Len(doc.val) = 3
    /\ Len(foundVenues.val) = 2
    /\ \E k \in 1..Len(doc.val) : Contains(doc.val[k].href, "/Section")

---------------------------------------------------------------------------
(* Claims on get_section_photos *)

\* C12: no image_url that get_section_photos returns contains "_thumb" or
\* "_small": a source ending in _thumb.jpg, or containing _small with or
\* without the text "thumb", has the marker removed.
C12_NoSizeMarker ==
    foundPhotos.called =>
        \A i \in 1..Len(foundPhotos.val) :
            /\ ~Contains(foundPhotos.val[i].image_url, "_thumb")
            /\ ~Contains(foundPhotos.val[i].image_url, "_small")

\* The positions of the page's photo links, of the first max_photos of them,
\* and of those among these that wrap an img with a non-empty src.
PhotoLinkIdx ==
    {k \in 1..Len(doc.val) : Contains(doc.val[k].href, "/photo/")}
PrefixIdx ==
    {k \in PhotoLinkIdx : Cardinality({m \in PhotoLinkIdx : m <= k}) <= maxArg}
UsableIdx ==
    {k \in PrefixIdx : doc.val[k].img.present /\ doc.val[k].img.val # ""}

\* C16: the result has at most max_photos records, and its records are, in
\* order, those of the links among the first max_photos photo links that
\* wrap an img with a src: a link beyond that prefix gives no record, also
\* when links of the prefix are skipped.
C16_CapBeforeProcessing ==
    foundPhotos.called =>
        /\ Len(foundPhotos.val) <= maxArg
        /\ Len(foundPhotos.val) = Cardinality(UsableIdx)
        /\ \A i \in 1..Len(foundPhotos.val) :
              \E k \in UsableIdx :
                  /\ Cardinality({m \in UsableIdx : m <= k}) = i
                  /\ foundPhotos.val[i].photo_page_url = FullUrl(doc.val[k].href)

\* Three photo links with a cap of two: the first has no img and is skipped,
\* the third has one and is not used.
C16_Witness ==
    /\ foundPhotos.called
    /\ maxArg = 2
    /\ PhotoLinkIdx = {1, 2, 3}
    /\ ~doc.val[1].img.present
    /\ UsableIdx = {2}
    /\ doc.val[3].img.present /\ doc.val[3].img.val # ""
    /\ Len(foundPhotos.val) = 1

\* C17 as stated: a page of 25 photo links fetched with max_photos = 10
\* yields exactly 10 records with pairwise distinct photo_page_url.
C17_ExactlyTen ==
    (foundPhotos.called /\ Cardinality(PhotoLinkIdx) = CandidateLinks
        /\ maxArg = CapPhotos) =>
        /\ Len(foundPhotos.val) = CapPhotos
        /\ \A i \in 1..Len(foundPhotos.val), j \in 1..Len(foundPhotos.val) :
              i # j => foundPhotos.val[i].photo_page_url
                         # foundPhotos.val[j].photo_page_url

\* C17 amended: such a page yields at most 10 records; exactly 10 when each
\* of the first 10 links wraps an img with a src; and records with pairwise
\* distinct photo_page_url when no two of the first 10 links point at the
\* same photo page.
C17_TenWhenComplete ==
    (foundPhotos.called /\ Cardinality(PhotoLinkIdx) = CandidateLinks
        /\ maxArg = CapPhotos) =>
        /\ Len(foundPhotos.val) <= CapPhotos
        /\ UsableIdx = PrefixIdx => Len(foundPhotos.val) = CapPhotos
        /\ (\A k \in PrefixIdx, m \in PrefixIdx :
                k # m => TargetPath(doc.val[k].href) # TargetPath(doc.val[m].href))
            => \A i \in 1..Len(foundPhotos.val), j \in 1..Len(foundPhotos.val) :
                  i # j => foundPhotos.val[i].photo_page_url
                             # foundPhotos.val[j].photo_page_url

\* Ten records came back although the eleventh link wraps no img and a link
\* beyond the cap repeats the first one.
C17_Witness ==
    /\ foundPhotos.called
    /\ Cardinality(PhotoLinkIdx) = CandidateLinks
    /\ Len(foundPhotos.val) = CapPhotos
    /\ ~doc.val[CapPhotos + 1].img.present
    /\ doc.val[CapPhotos + 2].href = doc.val[1].href

\* The hosts the markup and the base origin name.
HostPool == {"aviewfrommyseat.com", "cdn.x"}

\* url is scheme://host or scheme://host/path with an http(s) scheme, a host
\* of HostPool and a path that does not start with a second "/".
WellFormedAbsolute(url) ==
    \E scheme \in {"http://", "https://"}, host \in HostPool :
        \/ url = scheme \o host
        \/ /\ StartsWith(url, scheme \o host \o "/")
           /\ ~StartsWith(url, scheme \o host \o "//")

\* C15: every image_url and photo_page_url of a returned SeatPhoto is a
\* well-formed absolute http(s) URL, whatever the shape of the reference in
\* the markup: absolute, with a leading "/", without one, or "//host/...".
C15_AbsoluteUrls ==
    foundPhotos.called =>
        \A i \in 1..Len(foundPhotos.val) :
            /\ WellFormedAbsolute(foundPhotos.val[i].image_url)
            /\ WellFormedAbsolute(foundPhotos.val[i].photo_page_url)

\* C21: a photo link gives a record only if its href is not empty and it
\* wraps an img with a non-empty src, so the records are as many as such
\* links among those processed and each comes from one of them; every
\* record has event unset, venue equal to the venue_name passed in, and
\* section, row and seat equal to what _parse_seat_info gives for the
\* record's photo_page_url.
C21_RecordPerImageLink ==
    foundPhotos.called =>
        /\ Len(foundPhotos.val) = Cardinality(UsableIdx)
        /\ \A i \in 1..Len(foundPhotos.val) :
              /\ \E k \in 1..Len(doc.val) :
                    /\ doc.val[k].href # ""
                    /\ doc.val[k].img.present
                    /\ doc.val[k].img.val # ""
                    /\ foundPhotos.val[i].photo_page_url = FullUrl(doc.val[k].href)
              /\ foundPhotos.val[i].event = Absent
              /\ foundPhotos.val[i].venue = venueArg
              /\ [section |-> foundPhotos.val[i].section,
                  row |-> foundPhotos.val[i].row,
                  seat |-> foundPhotos.val[i].seat]
                    = parse_seat_info(foundPhotos.val[i].photo_page_url)

\* A named venue's page, fetched with a cap of two: the first photo link
\* wraps no img, the second leads to section 3 and wraps an image whose
\* address names section 9 and row Z: one record, of section 3 and no row.
C21_Witness ==
    /\ foundPhotos.called
    /\ venueArg = "Lenovo Center"
    /\ maxArg = 2
    /\ PrefixIdx = {1, 2}
    /\ ~doc.val[1].img.present
    /\ Len(foundPhotos.val) = 1
    /\ foundPhotos.val[1].section = "3"
    /\ foundPhotos.val[1].row = Absent
    /\ parse_seat_info(foundPhotos.val[1].image_url).section = "9"
    /\ parse_seat_info(foundPhotos.val[1].image_url).row = Some("Z")
    /\ foundPhotos.val[1].venue = "Lenovo Center"

---------------------------------------------------------------------------
(* Claims on get_photo_details *)

\* The positions of the page's imgs that the first selector matches (class
\* photo, or "/photos/" in the src) and that the second one matches (inside
\* .photo-container or #photo).
FirstSelectorIdx ==
    {k \in 1..Len(doc.val.imgs) :
        \/ doc.val.imgs[k].photo_class
        \/ /\ doc.val.imgs[k].src.present
           /\ Contains(doc.val.imgs[k].src.val, "/photos/")}
SecondSelectorIdx ==
    {k \in 1..Len(doc.val.imgs) : doc.val.imgs[k].in_photo_box}

\* The img that supplies the image: the first match of the first selector,
\* and the first match of the second one only when the first matches none.
SupplyingIdx ==
    IF FirstSelectorIdx # {} THEN MinOf(FirstSelectorIdx)
    ELSE MinOf(SecondSelectorIdx)

\* C22: get_photo_details returns None exactly when the fetch failed or no
\* img matches either selector; otherwise it returns a SeatPhoto whose image
\* is the src of the first match of the first selector, or of the second
\* selector when the first matches nothing, whose photo_page_url is the
\* input URL, whose section, row and seat are parsed from the input URL,
\* whose event is the page's event text when the page has one and unset
\* when not, and whose venue is the page's venue text when the page has one
\* and empty when not.
C22_DetailsOrNone ==
    foundDetails.called =>
        /\ ~foundDetails.val.present <=>
              (~doc.present \/ (FirstSelectorIdx \cup SecondSelectorIdx = {}))
        /\ foundDetails.val.present =>
              /\ \/ /\ doc.val.imgs[SupplyingIdx].src.present
                    /\ foundDetails.val.val.image_url
                          \in {doc.val.imgs[SupplyingIdx].src.val,
                               BASE_URL \o doc.val.imgs[SupplyingIdx].src.val}
                 \/ /\ ~doc.val.imgs[SupplyingIdx].src.present
                    /\ foundDetails.val.val.image_url = BASE_URL
              /\ foundDetails.val.val.photo_page_url = urlArg
              /\ foundDetails.val.val.section = parse_seat_info(urlArg).section
              /\ foundDetails.val.val.row = parse_seat_info(urlArg).row
              /\ foundDetails.val.val.seat = parse_seat_info(urlArg).seat
              /\ doc.val.event.present =>
                    /\ foundDetails.val.val.event.present
                    /\ foundDetails.val.val.event.val = Strip(doc.val.event.val)
              /\ ~doc.val.event.present => foundDetails.val.val.event = Absent
              /\ doc.val.venue.present =>
                    foundDetails.val.val.venue = Strip(doc.val.venue.val)
              /\ ~doc.val.venue.present => foundDetails.val.val.venue = ""

\* A page whose first img lies in the photo container, whose second img has
\* class photo, with an event text and no venue link, asked for under a URL
\* that names section 100, row A and seat 5: the second img is the image.
C22_Witness ==
    /\ foundDetails.called
    /\ doc.present
    /\ Len(doc.val.imgs) >= 2
    /\ doc.val.imgs[1] = Img(FALSE, Some("/i/c.jpg"), TRUE)
    /\ doc.val.imgs[2] = Img(TRUE, Some("/i/a.jpg"), FALSE)
    /\ doc.val.event.present
    /\ ~doc.val.venue.present
    /\ urlArg = DetailUrl
    /\ foundDetails.val.present
    /\ foundDetails.val.val.image_url = "https://aviewfrommyseat.com/i/a.jpg"
    /\ foundDetails.val.val.section = "100"
    /\ foundDetails.val.val.row = Some("A")
    /\ foundDetails.val.val.seat = Some("5")
    /\ foundDetails.val.val.event = Some("World Tour")
    /\ foundDetails.val.val.venue = ""

---------------------------------------------------------------------------
(* Claims on repeated extractor calls *)

\* C18: two calls of the same extractor on the same parsed document (the
\* same url for _parse_seat_info) return the same value, whatever calls
\* were made on the instance before and between them.
C18_SameInputSameOutput ==
    \A i \in 1..Len(runs), j \in 1..Len(runs) :
        (i < j /\ runs[i].op = runs[j].op /\ runs[i].input = runs[j].input)
            => runs[i].out = runs[j].out

\* search_venues found a venue, get_section_photos then found a photo, and
\* search_venues was run again on the same page.
C18_Witness ==
    /\ Len(runs) = 3
    /\ runs[1].op = "search_venues" /\ runs[1].out # <<>>
    /\ runs[2].op = "get_section_photos" /\ runs[2].out # <<>>
    /\ runs[3].op = "search_venues" /\ runs[3].input = runs[1].input

---------------------------------------------------------------------------
(* Claims on the app's batch download *)

\* Every photo of the list was attempted once, in list order.
AttemptedOnceInOrder ==
    /\ Len(attempts) = Len(session_photos)
    /\ \A i \in 1..Len(attempts) : attempts[i].idx = i - 1

\* The attempts whose request ended 2xx, and those that gave bytes that are
\* not empty.
OkAttempts == {i \in 1..Len(attempts) : attempts[i].outcome = "ok"}
NonEmptyAttempts ==
    {i \in 1..Len(attempts) :
        attempts[i].image_bytes.present /\ attempts[i].image_bytes.val # ""}

\* downloaded_images holds, in order, one entry for each attempt of S and
\* nothing else.
KeptExactly(S) ==
    /\ Len(downloaded_images) = Cardinality(S)
    /\ \A k \in 1..Len(downloaded_images) :
          \E i \in S :
              /\ Cardinality({m \in S : m <= i}) = k
              /\ downloaded_images[k][1] = Filename(session_photos[i], i - 1)

\* C20 as stated: when the batch is over, every photo was attempted once in
\* list order and downloaded_images holds exactly the photos whose download
\* succeeded.
C20_AllSucceededKept ==
    batchPc = "done" => (AttemptedOnceInOrder /\ KeptExactly(OkAttempts))

\* C20 amended: a batch that has started always ends, whatever downloads
\* fail; when it is over, every photo was attempted once in list order and
\* downloaded_images holds exactly the photos whose download gave bytes
\* that are not empty.
C20_BatchCompletes ==
    /\ [](batchPc = "done" => (AttemptedOnceInOrder /\ KeptExactly(NonEmptyAttempts)))
    /\ [](batchPc = "loop" => <>(batchPc = "done"))

\* A batch of three is over: the first download timed out, the second gave
\* bytes, the third ended in an HTTP error status.
C20_Witness ==
    /\ batchPc = "done"
    /\ Len(attempts) = 3
    /\ attempts[1].outcome = "timeout"
    /\ attempts[2].outcome = "ok"
    /\ attempts[3].outcome = "http_error"
    /\ Len(downloaded_images) = 1

---------------------------------------------------------------------------
(* Claims on the app's session state *)

\* C23: whenever sections or photos is not empty, current_venue is set and
\* is the venue of the latest Load Sections, and no script run has ended in
\* the TypeError of st.session_state.current_venue["name"] on None.
C23_VenueSetWhenBrowsing ==
    /\ (session_sections # <<>> \/ session_photos # <<>>) =>
          /\ current_venue.present
          /\ current_venue = loadedVenue
    /\ appError # "TypeError"

\* Photos of the second venue are on display and were prepared for
\* download, after a search that listed both venues.
C23_Witness ==
    /\ session_venues = <<VenueA, VenueB>>
    /\ session_sections # <<>>
    /\ session_photos # <<>>
    /\ downloaded_images # <<>>
    /\ current_venue = Some(VenueB)
    /\ batchPc = "done"

\* A step that assigns venues (Search), one that assigns sections or
\* current_venue (Load Sections), one that assigns photos (Fetch Photos).
C24_UpstreamClears ==
    /\ session_venues' # session_venues =>
          /\ session_sections' = <<>>
          /\ session_photos' = <<>>
          /\ downloaded_images' = <<>>
    /\ (session_sections' # session_sections
            \/ current_venue' # current_venue) =>
          /\ session_photos' = <<>>
          /\ downloaded_images' = <<>>
    /\ session_photos' # session_photos => downloaded_images' = <<>>

\* The images on hand are images of the photos on display: not more than
\* the photos, each named after one of them and its position.
C24_ImagesOfPhotos ==
    downloaded_images # <<>> =>
        /\ session_photos # <<>>
        /\ Len(downloaded_images) <= Len(session_photos)
        /\ \A j \in 1..Len(downloaded_images) :
              \E i \in 1..Len(session_photos) :
                  downloaded_images[j][1] = Filename(session_photos[i], i - 1)

\* C24: a step that changes the venues empties sections, photos and
\* downloaded_images; one that changes the sections or the current venue
\* empties photos and downloaded_images; one that changes the photos
\* empties downloaded_images; and in every state a non-empty
\* downloaded_images comes with a non-empty photos list its images were
\* downloaded from, and is not longer than it.
C24_DownstreamCleared ==
    [][C24_UpstreamClears]_vars /\ []C24_ImagesOfPhotos

\* Two photos are on display and one image is on hand: the other photo's
\* fetch failed.
C24_Witness ==
    /\ Len(session_photos) = 2
    /\ Len(downloaded_images) = 1
    /\ batchPc = "done"
    /\ \E a \in 1..Len(attempts) : attempts[a].outcome # "ok"

====
